---- MODULE Spec2Model ----
(***************************************************************************)
(* Model of simpleDeltaMonitor: the sampler thread (tracker.run_tracker),  *)
(* the auto-click thread (tracker.run_autoclicker) and the Stop handler of *)
(* the UI (main.App._on_stop), for one monitoring run started by           *)
(* App._on_start (Spec, FairSpec), and the Start handler itself applied to *)
(* the idle application (StartSpec).  SelectSpec adds the region overlay   *)
(* (region_selector.select_region), UiSpec the consumer of the queue       *)
(* (App._poll_queue), RestartSpec a Start pressed again after Stop.        *)
(*                                                                         *)
(* Floats that come from float(text) are pairs: <<"num", n>>, or           *)
(* <<"nan", 0>> for NaN; times are in milliseconds.                        *)
(*                                                                         *)
(* Optional values (Python None / a float) are tuples: <<>> is None and    *)
(* <<v>> is the number v.  Timestamps are left out of the queue items.     *)
(***************************************************************************)
EXTENDS Integers, Sequences, FiniteSets, TLC

\* ------------------------------------------------------------- bounds
\* number of ticks of the sampler the screen script covers
MaxTicks == 3
\* number of runs the UI may start
MaxRuns == 2
\* number of clicks the auto-clicker may perform
MaxClicks == 2

\* ------------------------------------------------------------- values
None == <<>>
Some(v) == <<v>>

\* what image_to_number can return for one capture: a number or None
Values == {5, 10}
Readings == {None} \cup {Some(v) : v \in Values}

\* sequences of exactly n readings
RECURSIVE Scripts(_)
Scripts(n) ==
    IF n = 0 THEN {<<>>}
    ELSE {Append(s, r) : s \in Scripts(n - 1), r \in Readings}

\* ------------------------------------------------------------- float(text)
NaN == <<"nan", 0>>
Num(n) == <<"num", n>>
ValueError == <<"err", 0>>

\* the decimal numerals among the texts of the entry fields
Numerals == ("-1" :> -1) @@ ("0" :> 0) @@ ("1" :> 1) @@ ("2" :> 2)
            @@ ("5" :> 5) @@ ("10" :> 10) @@ ("61" :> 61) @@ ("301" :> 301)

\* float(text.strip()): a number (times scale, 1000 for seconds), NaN for
\* "nan", ValueError for anything else, the empty text included
ParseFloat(s, scale) ==
    IF s = "nan" THEN NaN
    ELSE IF s \in DOMAIN Numerals THEN Num(Numerals[s] * scale)
    ELSE ValueError

\* comparisons of Python floats: every comparison with NaN is False
FLt(a, b) == a[1] = "num" /\ b[1] = "num" /\ a[2] < b[2]
FLe(a, b) == a[1] = "num" /\ b[1] = "num" /\ a[2] <= b[2]
FGt(a, b) == a[1] = "num" /\ b[1] = "num" /\ a[2] > b[2]

\* ------------------------------------------------------------- the form
\* texts and choices of the entry fields of the window
IntervalTexts == {"abc", "0", "1", "61", "nan"}
WinTexts == {"abc", "-1", "2"}
MinBaselineTexts == {"-1", "0", "10"}
MaxDeltaTexts == {"", "1", "5"}
AutoclickIntervalTexts == {"0", "1", "301"}
NtfyTopicSet == {"", "wins"}
Points == {None, <<3, 4>>}
Regions == {None, <<0, 0, 50, 20>>}

Forms ==
    [interval_var : IntervalTexts, win_var : WinTexts,
     min_baseline_var : MinBaselineTexts, max_delta_var : MaxDeltaTexts,
     click_action_var : BOOLEAN, click_on_delta : Points,
     autoclicker_enabled_var : BOOLEAN, autoclicker_coords : Points,
     autoclick_interval_var : AutoclickIntervalTexts,
     ntfy_topic_var : NtfyTopicSet]

\* the forms of the monitoring runs of Spec: one plain form, and the forms
\* that differ from it in one threshold or actuator, each with and without
\* the auto-clicker
BaseForm ==
    [interval_var |-> "1", win_var |-> "2", min_baseline_var |-> "0",
     max_delta_var |-> "", click_action_var |-> FALSE, click_on_delta |-> None,
     autoclicker_enabled_var |-> FALSE, autoclicker_coords |-> None,
     autoclick_interval_var |-> "1", ntfy_topic_var |-> ""]
RunForms ==
    LET quiet == {BaseForm,
                  [BaseForm EXCEPT !.min_baseline_var = "10"],
                  [BaseForm EXCEPT !.max_delta_var = "5"],
                  [BaseForm EXCEPT !.click_action_var = TRUE,
                                   !.click_on_delta = <<3, 4>>],
                  [BaseForm EXCEPT !.ntfy_topic_var = "wins"]}
    IN  quiet \cup {[f EXCEPT !.autoclicker_enabled_var = TRUE,
                              !.autoclicker_coords = <<3, 4>>] : f \in quiet}

\* time.monotonic() - t0 at the end of a tick's processing, in milliseconds
ElapsedSet == {300, 995, 1300}

\* LOG_MAX = 100
LOG_MAX == 100
\* the readings log left by earlier runs (Start does not clear the listbox):
\* n lines, of runs that read two misses and then a number
OldLog(n) == [i \in 1..n |-> IF i % 3 = 0 THEN Some(5) ELSE None]
\* sizes of that log: empty, one line short of LOG_MAX, full
OldLogSizes == {0, LOG_MAX - 1, LOG_MAX}

VARIABLES
    screen,                  \* what capture+OCR yields at tick 1, 2, ...
    region,                  \* App.region
    form,                    \* the entry fields, click_on_delta, autoclicker_coords
    win, min_baseline, max_delta, click_on_win, ntfy_topic,
    autoclicker_interval,    \* run_autoclicker: parameter interval (ms)
    autoclicker_on,          \* App._on_start started run_autoclicker
    stop_event,              \* App.stop_event (threading.Event)
    autoclicker_stop_event,  \* App._autoclicker_stop_event
    out_queue,               \* App.queue: every item put so far, in order
    pc,                      \* run_tracker: position of the sampler thread
    prev,                    \* run_tracker: local prev
    value,                   \* run_tracker: local value of the current tick
    ticks,                   \* run_tracker: ticks started so far
    interval,                \* run_tracker: parameter interval (ms)
    elapsed,                 \* run_tracker: elapsed of the last tick slept after
    gap,                     \* time from that tick's t0 to the next tick's t0
    win_clicks,              \* clicks performed by run_tracker on win
    ntfy_posts,              \* HTTP POSTs attempted by _send_ntfy
    ac_pc,                   \* run_autoclicker: position of the thread
    ac_clicks,               \* clicks performed by run_autoclicker
    ac_late_clicks,          \* of those, performed with its signal set
    ac_wait_flag,            \* value of the signal when the last wait returned
    ac_timeouts,             \* waits of run_autoclicker that timed out
    ac_failed,               \* click calls of run_autoclicker that raised
    status,                  \* App.status_var
    start_btn,               \* App.start_btn["state"]
    stop_btn,                \* App.stop_btn["state"]
    runs,                    \* runs App._on_start has started so far
    polled,                  \* items _poll_queue has taken from out_queue
    poll_id,                 \* App._poll_id: an after() call of _poll_queue is pending
    log_listbox,             \* App.log_listbox: its lines, oldest first
    shown,                   \* every line ever inserted in log_listbox, in order
    warning,                 \* lines of the "Win reached" message box, or None
    overlay,                 \* select_region: "closed", or "open" inside its mainloop
    start_xy,                \* select_region: start_x[0], start_y[0]
    drag                     \* select_region.on_release: width, height of the last release

config == <<screen, win, min_baseline, max_delta, click_on_win, ntfy_topic,
            autoclicker_on, interval, region, form, autoclicker_interval>>
tracker == <<pc, prev, value, ticks, out_queue, win_clicks, ntfy_posts,
             elapsed, gap>>
clicker == <<ac_pc, ac_clicks, ac_late_clicks, ac_wait_flag, ac_timeouts,
             ac_failed>>
ui == <<status, start_btn, stop_btn>>
poller == <<polled, poll_id, log_listbox, shown, warning>>
selector == <<overlay, start_xy, drag>>
vars == <<config, tracker, clicker, ui, stop_event, autoclicker_stop_event,
          runs, poller, selector>>

\* mutation of InitialPrev: prev starts at 0 instead of None
InitialPrevZero == Some(0)

\* prev: float | None = None
InitialPrev == None

\* ------------------------------------------------------------- App._on_start
\* str.strip on the topics of NtfyTopicSet
Strip(s) == IF s \in {"", " "} THEN "" ELSE s

\* the checks of _on_start, none of which returns
Accepted(f, reg) ==
    LET iv == ParseFloat(f.interval_var, 1000)
        w == ParseFloat(f.win_var, 1)
        mb == ParseFloat(f.min_baseline_var, 1)
        md == ParseFloat(f.max_delta_var, 1)
        ai == ParseFloat(f.autoclick_interval_var, 1000)
    IN  /\ reg # None
        /\ iv # ValueError /\ w # ValueError
        /\ ~(FLe(iv, Num(0)) \/ FGt(iv, Num(60000)))
        /\ ~FLt(w, Num(0))
        /\ mb # ValueError
        /\ ~FLt(mb, Num(0))
        /\ f.max_delta_var # "" =>
             (md # ValueError /\ ~FLt(md, Num(0)) /\ ~FLt(md, w))
        /\ f.click_action_var => f.click_on_delta # None
        /\ f.autoclicker_enabled_var =>
             /\ f.autoclicker_coords # None
             /\ ai # ValueError
             /\ ~(FLe(ai, Num(0)) \/ FGt(ai, Num(300000)))

\* the arguments _on_start computes for start_tracker and start_autoclicker
ConfigOf(f) ==
    [interval |-> ParseFloat(f.interval_var, 1000),
     win |-> ParseFloat(f.win_var, 1)[2],
     min_baseline |-> ParseFloat(f.min_baseline_var, 1)[2],
     max_delta |-> IF f.max_delta_var = "" THEN None
                   ELSE Some(ParseFloat(f.max_delta_var, 1)[2]),
     click_on_win |-> IF f.click_action_var THEN f.click_on_delta ELSE None,
     ntfy_topic |-> Strip(f.ntfy_topic_var),
     autoclicker_on |-> f.autoclicker_enabled_var,
     autoclicker_interval |-> ParseFloat(f.autoclick_interval_var, 1000)]

\* ------------------------------------------------------------- Init
\* The state right after App._on_start has started the threads of the first
\* run, its call of _poll_queue having found the new queue empty; the
\* listbox holds one of the logs.
Started(logs) ==
    /\ screen \in Scripts(MaxTicks)
    /\ region \in Regions \ {None}
    /\ form \in RunForms
    /\ Accepted(form, region)
    /\ interval = ConfigOf(form).interval
    /\ win = ConfigOf(form).win
    /\ min_baseline = ConfigOf(form).min_baseline
    /\ max_delta = ConfigOf(form).max_delta
    /\ click_on_win = ConfigOf(form).click_on_win
    /\ ntfy_topic = ConfigOf(form).ntfy_topic
    /\ autoclicker_on = ConfigOf(form).autoclicker_on
    /\ autoclicker_interval = ConfigOf(form).autoclicker_interval
    /\ stop_event = FALSE
    /\ autoclicker_stop_event = FALSE
    /\ out_queue = <<>>
    /\ pc = "loop"
    /\ prev = InitialPrev
    /\ value = None
    /\ ticks = 0
    /\ elapsed = 0
    /\ gap = 0
    /\ win_clicks = 0
    /\ ntfy_posts = 0
    /\ ac_pc = IF autoclicker_on THEN "loop" ELSE "off"
    /\ ac_clicks = 0
    /\ ac_late_clicks = 0
    /\ ac_wait_flag = FALSE
    /\ ac_timeouts = 0
    /\ ac_failed = 0
    /\ status = "Monitoring..."
    /\ start_btn = "disabled"
    /\ stop_btn = "normal"
    /\ runs = 1
    /\ polled = 0
    /\ poll_id = TRUE
    /\ log_listbox \in logs
    /\ shown = log_listbox
    /\ warning = None
    /\ overlay = "closed"
    /\ start_xy = <<0, 0>>
    /\ drag = None

\* a first run of the freshly opened application
Init == Started({<<>>})

\* The application before the first Start: the fields hold what the user
\* typed, a region may have been selected, no thread runs.
InitIdle ==
    /\ screen \in {<<None, None, None>>}
    /\ region \in Regions
    /\ form \in Forms
    /\ interval = Num(0)
    /\ win = 0
    /\ min_baseline = 0
    /\ max_delta = None
    /\ click_on_win = None
    /\ ntfy_topic = ""
    /\ autoclicker_on = FALSE
    /\ autoclicker_interval = Num(0)
    /\ stop_event = FALSE
    /\ autoclicker_stop_event = FALSE
    /\ out_queue = <<>>
    /\ pc = "idle"
    /\ prev = InitialPrev
    /\ value = None
    /\ ticks = 0
    /\ elapsed = 0
    /\ gap = 0
    /\ win_clicks = 0
    /\ ntfy_posts = 0
    /\ ac_pc = "off"
    /\ ac_clicks = 0
    /\ ac_late_clicks = 0
    /\ ac_wait_flag = FALSE
    /\ ac_timeouts = 0
    /\ ac_failed = 0
    /\ status = "Idle"
    /\ start_btn = IF region = None THEN "disabled" ELSE "normal"
    /\ stop_btn = "disabled"
    /\ runs = 0
    /\ polled = 0
    /\ poll_id = FALSE
    /\ log_listbox = <<>>
    /\ shown = <<>>
    /\ warning = None
    /\ overlay = "closed"
    /\ start_xy = <<0, 0>>
    /\ drag = None

\* App._on_start: a rejected form changes nothing; otherwise the signals and
\* the queue are renewed, the threads start and the buttons switch
OnStart ==
    /\ overlay = "closed"
    /\ start_btn = "normal"
    /\ IF Accepted(form, region)
         THEN /\ interval' = ConfigOf(form).interval
              /\ win' = ConfigOf(form).win
              /\ min_baseline' = ConfigOf(form).min_baseline
              /\ max_delta' = ConfigOf(form).max_delta
              /\ click_on_win' = ConfigOf(form).click_on_win
              /\ ntfy_topic' = ConfigOf(form).ntfy_topic
              /\ autoclicker_on' = ConfigOf(form).autoclicker_on
              /\ autoclicker_interval' = ConfigOf(form).autoclicker_interval
              /\ stop_event' = FALSE
              /\ autoclicker_stop_event' = FALSE
              /\ out_queue' = <<>>
              /\ pc' = "loop"
              /\ prev' = InitialPrev
              /\ value' = None
              /\ ticks' = 0
              /\ elapsed' = 0
              /\ gap' = 0
              /\ win_clicks' = 0
              /\ ntfy_posts' = 0
              /\ ac_pc' = IF ConfigOf(form).autoclicker_on THEN "loop" ELSE "off"
              /\ ac_clicks' = 0
              /\ ac_late_clicks' = 0
              /\ ac_wait_flag' = FALSE
              /\ ac_timeouts' = 0
              /\ ac_failed' = 0
              /\ status' = "Monitoring..."
              /\ start_btn' = "disabled"
              /\ stop_btn' = "normal"
              /\ runs' = runs + 1
              /\ polled' = 0
              /\ poll_id' = TRUE
              /\ UNCHANGED <<screen, region, form>>
              /\ UNCHANGED <<log_listbox, shown, warning, selector>>
         ELSE UNCHANGED vars

\* ------------------------------------------------------------- run_tracker
\* mutation of TrackerLoopCheck: while True
TrackerLoopCheckNoTest ==
    /\ pc = "loop"
    /\ ticks < MaxTicks
    /\ pc' = "capture"
    /\ ticks' = ticks + 1
    /\ UNCHANGED <<prev, value, out_queue, win_clicks, ntfy_posts, elapsed, gap>>
    /\ UNCHANGED <<runs, poller, selector>>
    /\ UNCHANGED <<config, clicker, ui, stop_event, autoclicker_stop_event>>

\* while not stop_event.is_set(): the loop ends, or a tick starts
TrackerLoopCheck ==
    /\ pc = "loop"
    /\ IF stop_event
         THEN /\ pc' = "stopped"
              /\ ticks' = ticks
         ELSE /\ ticks < MaxTicks
              /\ pc' = "capture"
              /\ ticks' = ticks + 1
    /\ UNCHANGED <<prev, value, out_queue, win_clicks, ntfy_posts, elapsed, gap>>
    /\ UNCHANGED <<runs, poller, selector>>
    /\ UNCHANGED <<config, clicker, ui, stop_event, autoclicker_stop_event>>

\* capture_region + image_to_number: the reading of this tick, or an
\* exception of mss, PIL or pytesseract, which nothing in run_tracker catches
TrackerCapture ==
    /\ pc = "capture"
    /\ \E raised \in BOOLEAN :
         IF raised
           THEN /\ pc' = "capture_raised"
                /\ value' = value
           ELSE /\ value' = screen[ticks]
                /\ pc' = "put"
    /\ UNCHANGED <<prev, ticks, out_queue, win_clicks, ntfy_posts, elapsed, gap>>
    /\ UNCHANGED <<runs, poller, selector>>
    /\ UNCHANGED <<config, clicker, ui, stop_event, autoclicker_stop_event>>

\* out_queue.put(("reading", ts, value)) of either branch
TrackerPutReading ==
    /\ pc = "put"
    /\ out_queue' = Append(out_queue, <<"reading", value>>)
    /\ pc' = IF value # None THEN "evaluate" ELSE "sleep"
    /\ UNCHANGED <<prev, value, ticks, win_clicks, ntfy_posts, elapsed, gap>>
    /\ UNCHANGED <<runs, poller, selector>>
    /\ UNCHANGED <<config, clicker, ui, stop_event, autoclicker_stop_event>>


\* value - prev raises TypeError when an operand is None
SubRaises(a, b) == a = None \/ b = None
Sub(a, b) == a[1] - b[1]

\* the condition of the if statement, with delta already computed
TriggerCond(p, delta) ==
    /\ p # None
    /\ p[1] >= min_baseline
    /\ delta >= win
    /\ (max_delta = None \/ delta <= max_delta[1])

\* outcomes of _send_ntfy: the POST is sent, it raises URLError or OSError
\* (caught, returns False), or it raises anything else (propagates)
NtfyOutcomes == {"sent", "caught", "uncaught"}

\* delta = value - prev; then the trigger pipeline and return, or prev = value
TrackerEvaluate ==
    /\ pc = "evaluate"
    /\ \E click_ok \in BOOLEAN, post \in NtfyOutcomes :
         IF SubRaises(value, prev)
           THEN /\ pc' = "crashed"
                /\ UNCHANGED <<prev, out_queue, win_clicks, ntfy_posts,
                               autoclicker_stop_event>>
           ELSE LET delta == Sub(value, prev)
                    clicked_at == IF click_on_win # None /\ click_ok
                                    THEN click_on_win ELSE None
                IN  IF TriggerCond(prev, delta)
                      THEN /\ autoclicker_stop_event' = TRUE
                           /\ win_clicks' = IF clicked_at # None
                                              THEN win_clicks + 1 ELSE win_clicks
                           /\ ntfy_posts' = IF Strip(ntfy_topic) # ""
                                              THEN ntfy_posts + 1 ELSE ntfy_posts
                           /\ IF Strip(ntfy_topic) # "" /\ post = "uncaught"
                                THEN /\ out_queue' = out_queue
                                     /\ pc' = "notify_raised"
                                ELSE /\ out_queue' = Append(out_queue,
                                            <<"alert", prev, value, clicked_at>>)
                                     /\ pc' = "triggered"
                           /\ prev' = prev
                      ELSE /\ prev' = value
                           /\ pc' = "sleep"
                           /\ UNCHANGED <<out_queue, win_clicks, ntfy_posts,
                                          autoclicker_stop_event>>
    /\ UNCHANGED <<value, ticks, elapsed, gap>>
    /\ UNCHANGED <<runs, poller, selector>>
    /\ UNCHANGED <<config, clicker, ui, stop_event>>

\* the floor 0.01 s of sleep_for, in milliseconds
SleepFloor == 10

\* mutation of SleepFor: the whole interval is slept
SleepForInterval(i, e) ==
    IF i[1] = "num" /\ i[2] > SleepFloor THEN i[2] ELSE SleepFloor

\* sleep_for = max(0.01, interval - elapsed): max keeps its first argument
\* unless the second compares greater, which NaN never does
SleepFor(i, e) ==
    IF i[1] = "num" /\ i[2] - e > SleepFloor THEN i[2] - e ELSE SleepFloor

\* elapsed = time.monotonic() - t0; sleep_for; then
\* if stop_event.wait(timeout=sleep_for): return
TrackerSleep ==
    /\ pc = "sleep"
    /\ IF stop_event
         THEN /\ pc' = "stopped"
              /\ UNCHANGED <<elapsed, gap>>
         ELSE /\ pc' = "loop"
              /\ \E e \in ElapsedSet :
                   /\ elapsed' = e
                   /\ gap' = e + SleepFor(interval, e)
    /\ UNCHANGED <<prev, value, ticks, out_queue, win_clicks, ntfy_posts>>
    /\ UNCHANGED <<runs, poller, selector>>
    /\ UNCHANGED <<config, clicker, ui, stop_event, autoclicker_stop_event>>

\* ------------------------------------------------------------- run_autoclicker
\* mutation of AutoclickerLoopCheck: the click comes before the wait
AutoclickerLoopCheckClicksFirst ==
    /\ ac_pc = "loop"
    /\ autoclicker_stop_event \/ ac_clicks < MaxClicks
    /\ ac_pc' = IF autoclicker_stop_event THEN "done" ELSE "click"
    /\ UNCHANGED <<ac_clicks, ac_late_clicks, ac_wait_flag, ac_timeouts,
                   ac_failed>>
    /\ UNCHANGED <<runs, poller, selector>>
    /\ UNCHANGED <<config, tracker, ui, stop_event, autoclicker_stop_event>>

\* while not stop_event.is_set()
AutoclickerLoopCheck ==
    /\ ac_pc = "loop"
    /\ ac_pc' = IF autoclicker_stop_event THEN "done" ELSE "wait"
    /\ UNCHANGED <<ac_clicks, ac_late_clicks, ac_wait_flag, ac_timeouts,
                   ac_failed>>
    /\ UNCHANGED <<runs, poller, selector>>
    /\ UNCHANGED <<config, tracker, ui, stop_event, autoclicker_stop_event>>

\* mutation of AutoclickerWait: time.sleep(interval) in place of the wait
AutoclickerWaitSleeps ==
    /\ ac_pc = "wait"
    /\ autoclicker_stop_event \/ ac_clicks < MaxClicks
    /\ ac_pc' = "click"
    /\ ac_wait_flag' = autoclicker_stop_event
    /\ ac_timeouts' = ac_timeouts + 1
    /\ UNCHANGED <<ac_clicks, ac_late_clicks, ac_failed>>
    /\ UNCHANGED <<runs, poller, selector>>
    /\ UNCHANGED <<config, tracker, ui, stop_event, autoclicker_stop_event>>

\* if stop_event.wait(timeout=interval): return
AutoclickerWait ==
    /\ ac_pc = "wait"
    /\ IF autoclicker_stop_event
         THEN /\ ac_pc' = "done"
              /\ ac_timeouts' = ac_timeouts
         ELSE /\ ac_clicks < MaxClicks
              /\ ac_pc' = "click"
              /\ ac_timeouts' = ac_timeouts + 1
    /\ ac_wait_flag' = autoclicker_stop_event
    /\ UNCHANGED <<ac_clicks, ac_late_clicks, ac_failed>>
    /\ UNCHANGED <<runs, poller, selector>>
    /\ UNCHANGED <<config, tracker, ui, stop_event, autoclicker_stop_event>>

\* mutation of AutoclickerClick: the exception of the click is not caught
AutoclickerClickRaises ==
    /\ ac_pc = "click"
    /\ \E click_ok \in BOOLEAN :
         /\ ac_failed' = IF click_ok THEN ac_failed ELSE ac_failed + 1
         /\ ac_pc' = IF click_ok THEN "loop" ELSE "died"
    /\ ac_clicks' = ac_clicks + 1
    /\ ac_late_clicks' = IF autoclicker_stop_event
                           THEN ac_late_clicks + 1 ELSE ac_late_clicks
    /\ UNCHANGED <<ac_wait_flag, ac_timeouts>>
    /\ UNCHANGED <<runs, poller, selector>>
    /\ UNCHANGED <<config, tracker, ui, stop_event, autoclicker_stop_event>>

\* try: pyautogui.click(cx, cy) except Exception: pass
AutoclickerClick ==
    /\ ac_pc = "click"
    /\ \E click_ok \in BOOLEAN :
         ac_failed' = IF click_ok THEN ac_failed ELSE ac_failed + 1
    /\ ac_clicks' = ac_clicks + 1
    /\ ac_late_clicks' = IF autoclicker_stop_event
                           THEN ac_late_clicks + 1 ELSE ac_late_clicks
    /\ ac_pc' = "loop"
    /\ UNCHANGED <<ac_wait_flag, ac_timeouts>>
    /\ UNCHANGED <<runs, poller, selector>>
    /\ UNCHANGED <<config, tracker, ui, stop_event, autoclicker_stop_event>>

\* ------------------------------------------------------------- App
\* App._on_stop with App._set_stopped("Stopped by user")
OnStop ==
    /\ stop_btn = "normal"
    /\ stop_event' = TRUE
    /\ autoclicker_stop_event' = TRUE
    /\ status' = "Stopped by user"
    /\ start_btn' = "normal"
    /\ stop_btn' = "disabled"
    /\ poll_id' = FALSE
    /\ UNCHANGED <<polled, log_listbox, shown, warning>>
    /\ UNCHANGED <<config, tracker, clicker, runs, selector>>

\* ------------------------------------------------------------- select_region
\* canvas coordinates of the mouse events on the overlay
Coords == {0, 3, 10}
\* winfo_pointerx() - e.x: where the overlay window lies on the screen
WinOffsets == {0, 2}
\* smallest width and height on_release accepts
MinSide == 5

\* App._on_select_region up to the mainloop of select_region: the main
\* window is withdrawn and the overlay is open; select_btn is enabled
\* whenever Stop is not
OnSelectRegion ==
    /\ overlay = "closed"
    /\ stop_btn = "disabled"
    /\ overlay' = "open"
    /\ start_xy' = <<0, 0>>
    /\ UNCHANGED <<drag, config, tracker, clicker, ui, runs, poller>>
    /\ UNCHANGED <<stop_event, autoclicker_stop_event>>

\* select_region.on_press
on_press ==
    /\ overlay = "open"
    /\ \E x \in Coords, y \in Coords : start_xy' = <<x, y>>
    /\ UNCHANGED <<overlay, drag, config, tracker, clicker, ui, runs, poller>>
    /\ UNCHANGED <<stop_event, autoclicker_stop_event>>

\* mutation of on_release: if width < 5 and height < 5
on_release_and ==
    /\ overlay = "open"
    /\ \E x2 \in Coords, y2 \in Coords, win_x \in WinOffsets, win_y \in WinOffsets :
         LET x1 == start_xy[1]
             y1 == start_xy[2]
             left == (IF x1 < x2 THEN x1 ELSE x2) + win_x
             top == (IF y1 < y2 THEN y1 ELSE y2) + win_y
             width == IF x2 >= x1 THEN x2 - x1 ELSE x1 - x2
             height == IF y2 >= y1 THEN y2 - y1 ELSE y1 - y2
         IN  /\ drag' = Some(<<width, height>>)
             /\ IF width < MinSide /\ height < MinSide
                  THEN UNCHANGED <<overlay, region, start_btn>>
                  ELSE /\ overlay' = "closed"
                       /\ region' = <<left, top, width, height>>
                       /\ start_btn' = "normal"
    /\ UNCHANGED <<screen, win, min_baseline, max_delta, click_on_win,
                   ntfy_topic, autoclicker_on, interval, form,
                   autoclicker_interval>>
    /\ UNCHANGED <<start_xy, status, stop_btn, tracker, clicker, runs, poller>>
    /\ UNCHANGED <<stop_event, autoclicker_stop_event>>

\* select_region.on_release, and for an accepted rectangle the return of
\* select_region into App._on_select_region, which stores the region and
\* enables Start
on_release ==
    /\ overlay = "open"
    /\ \E x2 \in Coords, y2 \in Coords, win_x \in WinOffsets, win_y \in WinOffsets :
         LET x1 == start_xy[1]
             y1 == start_xy[2]
             left == (IF x1 < x2 THEN x1 ELSE x2) + win_x
             top == (IF y1 < y2 THEN y1 ELSE y2) + win_y
             width == IF x2 >= x1 THEN x2 - x1 ELSE x1 - x2
             height == IF y2 >= y1 THEN y2 - y1 ELSE y1 - y2
         IN  /\ drag' = Some(<<width, height>>)
             /\ IF width < MinSide \/ height < MinSide
                  THEN UNCHANGED <<overlay, region, start_btn>>
                  ELSE /\ overlay' = "closed"
                       /\ region' = <<left, top, width, height>>
                       /\ start_btn' = "normal"
    /\ UNCHANGED <<screen, win, min_baseline, max_delta, click_on_win,
                   ntfy_topic, autoclicker_on, interval, form,
                   autoclicker_interval>>
    /\ UNCHANGED <<start_xy, status, stop_btn, tracker, clicker, runs, poller>>
    /\ UNCHANGED <<stop_event, autoclicker_stop_event>>

\* select_region.cancel (Escape): select_region returns None and
\* App._on_select_region keeps the region it had
cancel ==
    /\ overlay = "open"
    /\ overlay' = "closed"
    /\ UNCHANGED <<start_xy, drag, config, tracker, clicker, ui, runs, poller>>
    /\ UNCHANGED <<stop_event, autoclicker_stop_event>>

\* ------------------------------------------------------------- App._poll_queue
\* Listbox.delete(first, last): the lines first..last, counted from 0 and
\* both included, are removed; nothing is removed when last < first
ListboxDelete(lines, first, last) ==
    IF last < first THEN lines
    ELSE SubSeq(lines, 1, first) \o SubSeq(lines, last + 2, Len(lines))

\* mutation of LogInsert: delete(0, n - LOG_MAX - 2)
LogInsertDeletesShort(lines, line) ==
    LET inserted == Append(lines, line)
        n == Len(inserted)
    IN  IF n > LOG_MAX THEN ListboxDelete(inserted, 0, n - LOG_MAX - 2)
        ELSE inserted

\* insert(tk.END, line); n = size(); if n > LOG_MAX: delete(0, n - LOG_MAX - 1)
LogInsert(lines, line) ==
    LET inserted == Append(lines, line)
        n == Len(inserted)
    IN  IF n > LOG_MAX THEN ListboxDelete(inserted, 0, n - LOG_MAX - 1)
        ELSE inserted

\* the reading events of items handled in order; a line is the value of its
\* event, None standing for '(no number)'
RECURSIVE InsertAll(_, _)
InsertAll(lines, items) ==
    IF items = <<>> THEN lines
    ELSE InsertAll(LogInsert(lines, Head(items)[2]), Tail(items))

\* One call of _poll_queue from its after() timer during the first run: the
\* items on the queue are taken in order, readings go to the listbox; an
\* alert stops the UI, shows the message box and ends the call without a new
\* timer; with the queue empty the timer is renewed while Stop is enabled.
PollQueue ==
    /\ poll_id
    /\ runs = 1
    /\ LET items == SubSeq(out_queue, polled + 1, Len(out_queue))
           alerts == {i \in 1..Len(items) : items[i][1] = "alert"}
       IN  IF alerts = {}
             THEN /\ log_listbox' = InsertAll(log_listbox, items)
                  /\ shown' = shown \o [i \in 1..Len(items) |-> items[i][2]]
                  /\ polled' = Len(out_queue)
                  /\ poll_id' = (stop_btn # "disabled")
                  /\ UNCHANGED <<ui, warning>>
             ELSE LET a == CHOOSE i \in alerts : \A j \in alerts : i <= j
                      before == SubSeq(items, 1, a - 1)
                  IN  /\ log_listbox' = InsertAll(log_listbox, before)
                      /\ shown' = shown \o [i \in 1..(a - 1) |-> items[i][2]]
                      /\ polled' = polled + a
                      /\ status' = "Stopped (win)"
                      /\ start_btn' = "normal"
                      /\ stop_btn' = "disabled"
                      /\ poll_id' = FALSE
                      /\ warning' = Some([prev |-> items[a][2],
                                          curr |-> items[a][3],
                                          gain |-> Sub(items[a][3], items[a][2]),
                                          clicked_at |-> items[a][4],
                                          not_executed |->
                                              /\ items[a][4] = None
                                              /\ form.click_action_var])
    /\ UNCHANGED <<config, tracker, clicker, runs, selector>>
    /\ UNCHANGED <<stop_event, autoclicker_stop_event>>

\* App._on_start pressed again after a run: stop_event.clear() acts on the
\* one Event every run shares; the auto-click Event and the queue of the new
\* run are new objects, so those of the earlier run, and the arguments its
\* threads were started with, stay as they are; _poll_queue is called on the
\* new queue.  The threads of the new run are counted, not followed.
OnStartAgain ==
    /\ overlay = "closed"
    /\ start_btn = "normal"
    /\ runs >= 1
    /\ runs < MaxRuns
    /\ IF Accepted(form, region)
         THEN /\ stop_event' = FALSE
              /\ runs' = runs + 1
              /\ status' = "Monitoring..."
              /\ start_btn' = "disabled"
              /\ stop_btn' = "normal"
              /\ poll_id' = TRUE
              /\ UNCHANGED <<polled, log_listbox, shown, warning>>
              /\ UNCHANGED <<config, tracker, clicker, selector,
                             autoclicker_stop_event>>
         ELSE UNCHANGED vars

\* ------------------------------------------------------------- specification
Next ==
    \/ TrackerLoopCheck
    \/ TrackerCapture
    \/ TrackerPutReading
    \/ TrackerEvaluate
    \/ TrackerSleep
    \/ AutoclickerLoopCheck
    \/ AutoclickerWait
    \/ AutoclickerClick
    \/ OnStop

Spec == Init /\ [][Next]_vars

\* each thread keeps running while it has a step to take
FairSpec ==
    /\ Spec
    /\ WF_vars(TrackerLoopCheck \/ TrackerCapture \/ TrackerPutReading
                 \/ TrackerEvaluate \/ TrackerSleep)
    /\ WF_vars(AutoclickerLoopCheck \/ AutoclickerWait \/ AutoclickerClick)

\* the Start handler applied to the idle application
StartSpec == InitIdle /\ [][OnStart]_vars

\* the freshly opened application: no region yet, Start disabled
InitFresh == InitIdle /\ region = None /\ form \in RunForms
\* selecting regions and pressing Start
NextSelect ==
    \/ OnSelectRegion
    \/ on_press
    \/ on_release
    \/ cancel
    \/ OnStart
SelectSpec == InitFresh /\ [][NextSelect]_vars

\* a first run without auto-clicker, its sampler followed across Stop and
\* later presses of Start
InitRestart == Init /\ ~autoclicker_on
NextRestart ==
    \/ TrackerLoopCheck
    \/ TrackerCapture
    \/ TrackerPutReading
    \/ TrackerEvaluate
    \/ TrackerSleep
    \/ OnStop
    \/ OnStartAgain
RestartSpec == InitRestart /\ [][NextRestart]_vars

\* a first run without auto-clicker with its readings shown in the listbox,
\* which may hold the log of earlier runs
InitUi == Started({OldLog(n) : n \in OldLogSizes}) /\ ~autoclicker_on
NextUi ==
    \/ TrackerLoopCheck
    \/ TrackerCapture
    \/ TrackerPutReading
    \/ TrackerEvaluate
    \/ TrackerSleep
    \/ OnStop
    \/ PollQueue
UiSpec == InitUi /\ [][NextUi]_vars

TypeOK ==
    /\ pc \in {"loop", "capture", "put", "evaluate", "sleep",
               "stopped", "triggered", "crashed",
               "capture_raised", "notify_raised"}
    /\ ac_pc \in {"off", "loop", "wait", "click", "done"}
    /\ prev \in Readings
    /\ value \in Readings
    /\ ticks \in 0..MaxTicks
    /\ interval \in {Num(1000)}
    /\ elapsed \in {0} \cup ElapsedSet
    /\ gap \in Nat
    /\ stop_event \in BOOLEAN
    /\ autoclicker_stop_event \in BOOLEAN

\* ------------------------------------------------------------- claims
\* positions in out_queue of the readings that carry a number, of the alerts
GoodReadings == {i \in 1..Len(out_queue) :
                   out_queue[i][1] = "reading" /\ out_queue[i][2] # None}
Alerts == {i \in 1..Len(out_queue) : out_queue[i][1] = "alert"}
Ended == pc \in {"stopped", "triggered", "crashed"}
\* the sampler thread is gone, in whatever way
Terminated == Ended \/ pc \in {"capture_raised", "notify_raised"}

\* the trigger condition of the specification for previous p and current v
Expected(p, v) ==
    /\ p # None /\ v # None
    /\ p[1] >= min_baseline
    /\ v[1] - p[1] >= win
    /\ (max_delta = None \/ v[1] - p[1] <= max_delta[1])

\* C2 (as claimed): when the first two ticks read p and then v, with p at
\* least min_baseline and v - p inside [win, max_delta], the second tick
\* triggers: a run that ended without its stop signal has put the alert
\* (p, v) on the queue.
C2_WindowTriggers ==
    (Ended /\ ~stop_event /\ Expected(screen[1], screen[2]))
        => \E i \in Alerts : /\ out_queue[i][2] = screen[1]
                             /\ out_queue[i][3] = screen[2]

\* C3 (as claimed): once the first successful reading of a run has been
\* evaluated, prev holds that reading and the loop has neither triggered nor
\* ended otherwise than by its stop signal.
C3_FirstReadingSeedsPrev ==
    (Cardinality(GoodReadings) = 1 /\ pc # "evaluate")
        => /\ \A i \in GoodReadings : prev = out_queue[i][2]
           /\ pc \notin {"triggered", "crashed"}

\* C4: every alert on the queue carries a previous value that an earlier
\* tick's successful reading put on the queue before the reading of the
\* alert's own tick; no alert follows the first successful reading of a run.
C4_FirstReadingNeverTriggers ==
    \A i \in Alerts :
        /\ i - 1 \in GoodReadings
        /\ \E j \in GoodReadings : j < i - 1 /\ out_queue[j][2] = out_queue[i][2]

\* C4 witness: the first successful reading has been evaluated.
C4_FirstReadingEvaluated ==
    /\ Cardinality(GoodReadings) = 1
    /\ pc \notin {"put", "evaluate"}
    /\ Alerts = {}

\* C5 (as claimed): a loop that has ended has emitted a trigger or has its
\* stop signal set.
C5_TwoTerminalOutcomes ==
    Ended => (Alerts # {} \/ stop_event)

\* C7 (as claimed): a miss leaves prev alone, so when the ticks read p, None
\* and v, with p and v satisfying the trigger condition, the third tick
\* triggers against p: a run that ended without its stop signal has put the
\* alert (p, v) on the queue.
C7_MissKeepsBaseline ==
    (Ended /\ ~stop_event /\ screen[2] = None /\ Expected(screen[1], screen[3]))
        => \E i \in Alerts : /\ out_queue[i][2] = screen[1]
                             /\ out_queue[i][3] = screen[3]

\* C8 (as claimed): with the stop signal set before the evaluation of a tick,
\* no step of the loop ends the run otherwise than as a clean stop.
C8_CancelBeforeEvaluation ==
    [][(stop_event /\ pc' # pc) => pc' \notin {"triggered", "crashed"}]_vars

\* C10: the auto-clicker clicks at most once with its signal set, only after
\* a wait that returned while the signal was not set, and once the signal is
\* set it terminates.
C10_AtMostOneLateClick ==
    /\ [](ac_late_clicks <= 1 /\ (ac_pc = "click" => ~ac_wait_flag))
    /\ (autoclicker_stop_event ~> ac_pc \in {"off", "done"})

\* C10 witness: the signal was set with a click in flight; the click was
\* performed and the auto-clicker ended.
C10_LateClickThenDone ==
    ac_late_clicks = 1 /\ ac_pc = "done"

\* C11 (as claimed): on a triggering tick with a click target or a topic
\* configured, whatever the click and the POST do, the alert is put on the
\* queue: when the first two ticks read p and v satisfying the trigger
\* condition, a sampler thread that is gone without its stop signal has put
\* the alert (p, v) as its last item.
C11_ActuatorFailureKeepsTrigger ==
    (/\ Terminated /\ pc # "capture_raised" /\ ~stop_event
     /\ Expected(screen[1], screen[2])
     /\ (click_on_win # None \/ Strip(ntfy_topic) # ""))
        => /\ out_queue # <<>>
           /\ out_queue[Len(out_queue)][1] = "alert"
           /\ out_queue[Len(out_queue)][2] = screen[1]
           /\ out_queue[Len(out_queue)][3] = screen[2]

\* C12 (as claimed): an exception of capture or OCR is a read miss; it never
\* ends the sampler thread.
C12_CaptureErrorIsMiss ==
    pc # "capture_raised"

\* C13 (as claimed): every tick that is past its capture has put exactly one
\* reading event, and every alert directly follows the reading event that
\* carries its current value.
C13_OneReadingPerTick ==
    /\ Cardinality({i \in 1..Len(out_queue) : out_queue[i][1] = "reading"})
         = IF pc \in {"capture", "put"} THEN ticks - 1 ELSE ticks
    /\ \A i \in Alerts : /\ i > 1
                         /\ out_queue[i - 1] = <<"reading", out_queue[i][3]>>

\* C14: with the stop signal set the sampler starts no new tick, and it
\* eventually terminates.
C14_StopEndsSampler ==
    /\ [][stop_event => ticks' = ticks]_vars
    /\ (stop_event ~> Terminated)

\* C14 witness: the sampler has performed a tick and ended by its signal.
C14_StoppedAfterTick ==
    pc = "stopped" /\ ticks >= 1 /\ out_queue # <<>>

\* C16: every click of the auto-clicker has its own timed-out wait before
\* it, and no wait times out once the signal is set; set before the first
\* interval has elapsed, the signal leaves the auto-clicker with no click.
C16_WaitBeforeClick ==
    /\ [](ac_clicks <= ac_timeouts)
    /\ [][autoclicker_stop_event => ac_timeouts' = ac_timeouts]_vars

\* C16 witness: the signal came before the first interval had elapsed and
\* the auto-clicker ended without a click.
C16_StoppedBeforeFirstClick ==
    ac_pc = "done" /\ ac_timeouts = 0 /\ ac_clicks = 0

\* C17: a click that raises leaves the auto-clicker in its loop; the
\* auto-clicker ends only with its signal set, and then it does end.
C17_ClickFailureKeepsLoop ==
    /\ [](ac_pc \notin {"off", "loop", "wait", "click"}
            => (ac_pc = "done" /\ autoclicker_stop_event))
    /\ [][(ac_failed' > ac_failed) => ac_pc' = "loop"]_vars
    /\ (autoclicker_stop_event ~> ac_pc \in {"off", "done"})

\* C17 witness: after a click that raised, the auto-clicker has waited a
\* full interval again and is about to click.
C17_ClickAfterFailure ==
    ac_failed >= 1 /\ ac_pc = "click"

\* C18 (as claimed): prev is None while no successful reading has been
\* evaluated, and afterwards it is the value of the most recent successful
\* reading that did not trigger.
C18_PrevIsLastQuietReading ==
    LET done == {i \in GoodReadings :
                   /\ ~(pc = "evaluate" /\ i = Len(out_queue))
                   /\ (i + 1) \notin Alerts}
    IN  IF done = {}
          THEN prev = None
          ELSE \E i \in done : /\ \A j \in done : j <= i
                               /\ prev = out_queue[i][2]

\* C19: a tick is followed by a sleep of at least the floor; when its
\* processing took no more than the interval less the floor, the next tick
\* starts exactly one interval after it, and otherwise the floor after the
\* end of its processing.
C19_IntervalAccurate ==
    (gap # 0 /\ interval[1] = "num") =>
        /\ gap - elapsed >= SleepFloor
        /\ (elapsed <= interval[2] - SleepFloor => gap = interval[2])
        /\ (elapsed > interval[2] - SleepFloor => gap = elapsed + SleepFloor)

\* C19 witness: a tick that took less than the interval has been slept
\* after, and the next tick has started.
C19_NextTickOnTime ==
    interval = Num(1000) /\ gap = 1000 /\ elapsed = 300 /\ ticks >= 2

\* C15 (as claimed): threads have been started only from a form that holds a
\* region, 0 < interval <= 60 s, win >= 0, min_baseline >= 0, max_delta
\* empty or >= win, a click target when click-on-win is enabled and, with
\* the auto-clicker enabled, its point and 0 < interval <= 300 s.
C15_StartOnlyWhenValid ==
    pc # "idle" =>
        /\ region # None
        /\ FGt(interval, Num(0)) /\ FLe(interval, Num(60000))
        /\ win >= 0
        /\ min_baseline >= 0
        /\ (max_delta = None \/ max_delta[1] >= win)
        /\ (form.click_action_var => click_on_win # None)
        /\ form.autoclicker_enabled_var =>
             /\ form.autoclicker_coords # None
             /\ FGt(autoclicker_interval, Num(0))
             /\ FLe(autoclicker_interval, Num(300000))

\* C21 (as claimed): with no notification topic a trigger posts nothing and
\* still emits its event: when the first two ticks read p and v satisfying
\* the trigger condition, a sampler thread that is gone without its stop
\* signal has put the alert (p, v) as its last item and no POST was made.
C21_NoTopicNoPost ==
    (/\ Terminated /\ pc # "capture_raised" /\ ~stop_event
     /\ Expected(screen[1], screen[2])
     /\ Strip(ntfy_topic) = "")
        => /\ ntfy_posts = 0
           /\ Alerts = {Len(out_queue)}
           /\ \A i \in Alerts : /\ out_queue[i][2] = screen[1]
                                /\ out_queue[i][3] = screen[2]

\* C23 (as claimed): whenever the sampler thread of a run with an
\* auto-clicker is gone, in whatever way, the auto-clicker's signal is set.
C23_ClickerStopsWithSampler ==
    (autoclicker_on /\ Terminated) => autoclicker_stop_event

\* the user has pressed Stop during the first run
StoppedByUser == stop_event \/ runs >= 2

\* C22 (as claimed): the sampler of a run the user has stopped starts no
\* further tick, also when Start was pressed again before it has observed
\* its signal; it is not live next to the sampler of the new run.
C22_StoppedRunEnds ==
    [][StoppedByUser => ticks' = ticks]_vars

\* the last n elements of a sequence, all of it when it is shorter
LastOf(seq, n) ==
    IF Len(seq) <= n THEN seq ELSE SubSeq(seq, Len(seq) - n + 1, Len(seq))

\* C27: the listbox never holds more than LOG_MAX lines, and its lines are
\* the most recent of the lines ever inserted, in their order of arrival.
C27_LogHoldsLatest ==
    /\ Len(log_listbox) <= LOG_MAX
    /\ log_listbox = LastOf(shown, LOG_MAX)

\* C27 witness: _poll_queue has handled readings of this run that made the
\* log outgrow LOG_MAX, and the oldest lines are gone.
C27_LogTrimmed ==
    /\ polled >= 2
    /\ Len(shown) > LOG_MAX
    /\ Len(log_listbox) = LOG_MAX

\* C26: a sampler has been started only with a region, whose width and
\* height are positive; every region select_region has returned is at least
\* MinSide wide and high; a release of a smaller drag leaves the overlay open
\* and the region as it was.
C26_RegionHasArea ==
    /\ [](pc # "idle" => (region # None /\ region[3] > 0 /\ region[4] > 0))
    /\ [](region # None => (region[3] >= MinSide /\ region[4] >= MinSide))
    /\ [][(drag' # drag /\ (drag'[1][1] < MinSide \/ drag'[1][2] < MinSide))
            => (overlay' = "open" /\ region' = region)]_vars

\* C26 witness: a drag that began away from the corner of the overlay was
\* accepted, and Start has started the sampler on its region.
C26_StartedOnSelection ==
    /\ pc = "loop"
    /\ region # None
    /\ drag = Some(<<region[3], region[4]>>)
    /\ start_xy # <<0, 0>>

====
